---- MODULE Spec2Model ----
(***************************************************************************)
(* SimpleVidView: the frame-streaming pipeline of VideoCanvas.tsx and      *)
(* renderer-worker.ts (both in src/unnamed/part_002).                      *)
(*                                                                         *)
(* Two threads: the control thread (the VideoCanvas effect and the socket  *)
(* and worker event handlers it installs) and the render worker (module    *)
(* state gl/videoW/videoH/texture/program/vao and self.onmessage).  They   *)
(* talk through two FIFO port queues: inbox (control -> worker) and toMain *)
(* (worker -> control).                                                    *)
(*                                                                         *)
(* Pixel data is kept per texel: a buffer's bytes are identified by its    *)
(* content number, and a texture holds, for each texel, the content number *)
(* of the buffer that last wrote it (0 = the zeroes texImage2D(null)       *)
(* allocates).                                                             *)
(*                                                                         *)
(* Further components have specifications of their own: ImageCanvas with  *)
(* its header-framed receive path (src/src/App.tsx, SpecImage), ProgressBar *)
(* (src/unnamed/part_000, SpecBar), its updateProgressFromEvent as a       *)
(* function (SpecClamp) and the useVideoFrame hook (SpecFrame).            *)
(***************************************************************************)
EXTENDS Integers, Sequences, FiniteSets, TLC

\* ------------------------------------------------------------------ bounds
\* Messages a client posts to a stand-alone worker (SpecWorker).
MaxMsgs == 4
\* Binary messages the socket delivers to ws.onmessage.
MaxFrames == 3
\* Runs of the VideoCanvas effect (mount and re-runs on changed deps).
MaxRuns == 2
\* Socket messages whose buffer cannot be transferred (SpecFaulty).
MaxFaults == 1

\* ------------------------------------------------------- program constants
\* `null` of the worker's module state (gl, texture, program, vao).
NULL == 0
\* Bytes per RGBA8 pixel: `videoW * videoH * 4`.
BytesPerPixel == 4

\* (videoWidth, videoHeight) pairs a caller configures.
DimPairs == {<<1, 1>>, <<2, 1>>}
\* Byte lengths of the binary messages a source emits.
Lengths == {4, 8}
\* Byte lengths of the messages whose buffer cannot be transferred: the
\* transfer and the copy do not look at the length.
FaultyLengths == {4}
\* How initGL ends: it returns, or throws at one of its three throw sites.
InitOutcomes == {"ok", "noctx", "compile", "link"}

VARIABLES
    \* renderer-worker.ts module state
    gl, videoW, videoH, texture, program, vao,
    \* the worker as an agent
    worker,     \* "none" | "alive" | "terminated"
    inbox,      \* port queue control -> worker
    toMain,     \* port queue worker -> control
    bufs,       \* every ArrayBuffer: [content, len, owner]
    \* VideoCanvas (one component instance) and its environment
    comp,               \* "new" | "mounted" | "unmounted"
    effect,             \* "none" | "posted" (between lines 39 and 41) | "active" | "bailed"
    runs,               \* effect runs so far
    offscreenSupported, \* "transferControlToOffscreen" in HTMLCanvasElement.prototype
    canvasTransferred,  \* the <canvas> has handed its control to an OffscreenCanvas
    leaked,             \* workers created by runs that registered no cleanup
    ws,                 \* "none" | "connecting" | "open" | "closing" | "failed" | "closed"
    status,             \* useState("idle")
    onmessage,          \* worker.onmessage is set
    faults,             \* the environment may hand over buffers whose transfer raises
    \* history (read by the properties only)
    posted,     \* messages posted to the worker, in order
    handled,    \* messages self.onmessage has handled, in order
    uploads,    \* texSubImage2D calls
    draws,      \* drawArrays calls
    sent,       \* events the worker posted with self.postMessage
    delivered,  \* socket messages handed to ws.onmessage
    logged,     \* console.error("Worker error:", message) calls
    unheard,    \* worker events dispatched while worker.onmessage was unset
    escaped,    \* exceptions that left ws.onmessage
    access,     \* control-thread uses of frame buffers
    arrivedUp,  \* per socket message: the worker was alive and initialised on arrival
    \* ImageCanvas / ImagePlane (src/src/App.tsx)
    currentImageData,   \* useState<RawImageData | null>(null)
    textureImage,       \* textureRef.current.image, NoImage while there is no texture
    received,           \* history: messages handed to the socket listener
    \* ProgressBar (src/unnamed/part_000)
    isDragging,         \* useState(false)
    dragPos,            \* useState(0)
    progress,           \* props.progress
    listening,          \* isDragging as captured by the registered window listeners
    pointer,            \* history: pointer events with the onChange calls they made
    \* updateProgressFromEvent on its own (SpecClamp)
    seek,               \* the last call: rect, clientX and the fraction passed on
    \* useVideoFrame (src/unnamed/part_000)
    vfId,               \* vfId.current
    frameRequests,      \* callbacks in the video's frame request list: [id, run]
    running,            \* effect runs whose `running` flag is true
    vfRuns,             \* effect runs so far
    vfCleanup,          \* the last run returned a cleanup
    vfMounted,          \* the component using the hook is mounted
    lastId,             \* last handle requestVideoFrameCallback returned
    cancelSupported,    \* "cancelVideoFrameCallback" in video
    fired               \* history: callbacks run, with whether onFrame was invoked

workerVars == <<gl, videoW, videoH, texture, program, vao>>
controlVars == <<comp, effect, runs, offscreenSupported, canvasTransferred,
                 leaked, ws, status, onmessage, faults>>
imageVars == <<currentImageData, textureImage, received>>
barVars == <<isDragging, dragPos, progress, listening, pointer>>
clampVars == <<seek>>
frameVars == <<vfId, frameRequests, running, vfRuns, vfCleanup, vfMounted, lastId,
               cancelSupported, fired>>
uiVars == <<imageVars, barVars, clampVars, frameVars>>
controlHist == <<delivered, logged, unheard, escaped, access, arrivedUp>>
vars == <<gl, videoW, videoH, texture, program, vao, worker, inbox, toMain,
          bufs, posted, handled, uploads, draws, sent, controlVars, controlHist,
          uiVars>>

\* ------------------------------------------------------------ ArrayBuffers
\* ab.byteLength: a detached buffer reads as length 0.
ByteLength(ab) == IF bufs[ab].owner = "nobody" THEN 0 ELSE bufs[ab].len

\* ----------------------------------------------------------- GL semantics
NoTexture == [ctx |-> NULL, w |-> 0, h |-> 0, data |-> <<>>]

\* gl.createTexture + gl.texImage2D(..., videoW, videoH, ..., null)
AllocTexture(ctx, w, h) ==
    [ctx |-> ctx, w |-> w, h |-> h, data |-> [i \in 1..(w * h) |-> 0]]

\* gl.bindTexture(texture); gl.texSubImage2D(0, 0, w, h, u8) in context ctx:
\* a texture of another context cannot be bound (INVALID_OPERATION) and a
\* region outside the texture is rejected (INVALID_VALUE); either way the
\* texture keeps its texels.
TexSubImage2D(ctx, tex, w, h, content) ==
    IF tex.ctx # ctx \/ w > tex.w \/ h > tex.h
    THEN tex
    ELSE [tex EXCEPT !.data =
            [i \in 1..(tex.w * tex.h) |->
                IF (i - 1) % tex.w < w /\ (i - 1) \div tex.w < h
                THEN content ELSE tex.data[i]]]

\* gl.clear; gl.drawArrays(TRIANGLE_STRIP, 0, 4): what the quad shows.  With
\* no program in use or no texture bound in ctx nothing is rendered.
DrawArrays(ctx, prog, tex) ==
    IF prog = ctx /\ tex.ctx = ctx THEN tex.data ELSE <<>>

\* ------------------------------------------------------ renderer-worker.ts
\* String(err) of the Error initGL throws.
InitError(outcome) ==
    CASE outcome = "noctx"   -> "Error: WebGL2 not supported in worker."
      [] outcome = "compile" -> "Error: Shader compile error"
      [] outcome = "link"    -> "Error: Program link error"

\* initGL(offscreen, w, h).  The context of a canvas is named by the canvas.
initGL(offscreen, w, h, outcome) ==
    IF outcome = "noctx"
    THEN UNCHANGED workerVars
    ELSE /\ gl' = offscreen
         /\ videoW' = w
         /\ videoH' = h
         /\ IF outcome = "ok"
            THEN /\ program' = offscreen
                 /\ vao' = offscreen
                 /\ texture' = AllocTexture(offscreen, w, h)
            ELSE UNCHANGED <<program, vao, texture>>

\* Faulty variant: the size comparison is missing.
FrameAccepted_NoSizeCheck(ab) ==
    ~(gl = NULL \/ texture.ctx = NULL \/ program = NULL)

\* Faulty variant: only gl is tested for null.
FrameAccepted_GlOnly(ab) ==
    /\ gl # NULL
    /\ ByteLength(ab) = videoW * videoH * BytesPerPixel

\* Faulty variant: a buffer longer than the frame is accepted too.
FrameAccepted_AtLeast(ab) ==
    /\ ~(gl = NULL \/ texture.ctx = NULL \/ program = NULL)
    /\ ByteLength(ab) >= videoW * videoH * BytesPerPixel

\* The two early returns of renderFrameFromBuffer.
FrameAccepted(ab) ==
    /\ ~(gl = NULL \/ texture.ctx = NULL \/ program = NULL)
    /\ ByteLength(ab) = videoW * videoH * BytesPerPixel

\* Faulty variant: the quad is drawn before the upload.
renderFrameFromBuffer_DrawFirst(ab, at) ==
    IF FrameAccepted(ab)
    THEN /\ draws' = Append(draws, [at |-> at, shown |-> DrawArrays(gl, program, texture)])
         /\ texture' = TexSubImage2D(gl, texture, videoW, videoH, bufs[ab].content)
         /\ uploads' = Append(uploads, [at |-> at, content |-> bufs[ab].content])
         /\ UNCHANGED <<gl, videoW, videoH, program, vao>>
    ELSE UNCHANGED <<workerVars, uploads, draws>>

\* renderFrameFromBuffer(ab), handling message number `at`.
renderFrameFromBuffer(ab, at) ==
    IF FrameAccepted(ab)
    THEN LET tex == TexSubImage2D(gl, texture, videoW, videoH, bufs[ab].content)
         IN /\ texture' = tex
            /\ uploads' = Append(uploads, [at |-> at, content |-> bufs[ab].content])
            /\ draws' = Append(draws, [at |-> at, shown |-> DrawArrays(gl, program, tex)])
            /\ UNCHANGED <<gl, videoW, videoH, program, vao>>
    ELSE UNCHANGED <<workerVars, uploads, draws>>

\* Faulty variant: handling a frame discards the frames queued behind it.
WorkerOnMessage_DropBacklog ==
    /\ worker = "alive"
    /\ inbox # <<>>
    /\ LET data == Head(inbox)
           at == Len(handled) + 1
       IN /\ inbox' = IF data.type = "frame" THEN <<>> ELSE Tail(inbox)
          /\ IF data.type = "init"
             THEN \E outcome \in InitOutcomes :
                    /\ initGL(data.canvas, data.videoWidth, data.videoHeight, outcome)
                    /\ IF outcome = "ok"
                       THEN UNCHANGED <<toMain, sent>>
                       ELSE LET ev == [type |-> "error", message |-> InitError(outcome)]
                            IN toMain' = Append(toMain, ev) /\ sent' = Append(sent, ev)
                    /\ handled' = Append(handled, [type |-> "init", outcome |-> outcome,
                                                   canvas |-> data.canvas,
                                                   videoWidth |-> data.videoWidth,
                                                   videoHeight |-> data.videoHeight])
                    /\ UNCHANGED <<uploads, draws>>
             ELSE /\ renderFrameFromBuffer(data.buffer, at)
                  /\ handled' = Append(handled, [type |-> "frame", buffer |-> data.buffer,
                                                 byteLength |-> ByteLength(data.buffer),
                                                 content |-> bufs[data.buffer].content])
                  /\ UNCHANGED <<toMain, sent>>
    /\ UNCHANGED <<worker, bufs, posted, controlVars, controlHist>>
    /\ UNCHANGED uiVars

\* self.onmessage: one message of the worker's port queue.
WorkerOnMessage ==
    /\ worker = "alive"
    /\ inbox # <<>>
    /\ LET data == Head(inbox)
           at == Len(handled) + 1
       IN /\ inbox' = Tail(inbox)
          /\ IF data.type = "init"
             THEN \E outcome \in InitOutcomes :
                    /\ initGL(data.canvas, data.videoWidth, data.videoHeight, outcome)
                    /\ IF outcome = "ok"
                       THEN UNCHANGED <<toMain, sent>>
                       ELSE LET ev == [type |-> "error", message |-> InitError(outcome)]
                            IN toMain' = Append(toMain, ev) /\ sent' = Append(sent, ev)
                    /\ handled' = Append(handled, [type |-> "init", outcome |-> outcome,
                                                   canvas |-> data.canvas,
                                                   videoWidth |-> data.videoWidth,
                                                   videoHeight |-> data.videoHeight])
                    /\ UNCHANGED <<uploads, draws>>
             ELSE /\ renderFrameFromBuffer(data.buffer, at)
                  /\ handled' = Append(handled, [type |-> "frame", buffer |-> data.buffer,
                                                 byteLength |-> ByteLength(data.buffer),
                                                 content |-> bufs[data.buffer].content])
                  /\ UNCHANGED <<toMain, sent>>
    /\ UNCHANGED <<worker, bufs, posted, controlVars, controlHist>>
    /\ UNCHANGED uiVars

\* ------------------------------------------------ a stand-alone worker
\* Any client of the worker's message interface (InitMessage | FrameMessage),
\* posting one message at a time.
ClientPostInit ==
    /\ Len(posted) < MaxMsgs
    /\ inbox = <<>>
    /\ \E d \in DimPairs :
         LET m == [type |-> "init", canvas |-> Len(posted) + 1,
                   videoWidth |-> d[1], videoHeight |-> d[2]]
         IN /\ inbox' = Append(inbox, m)
            /\ posted' = Append(posted, m)
    /\ UNCHANGED <<workerVars, worker, toMain, bufs, handled, uploads, draws, sent,
                   controlVars, controlHist>>
    /\ UNCHANGED uiVars

ClientPostFrame ==
    /\ Len(posted) < MaxMsgs
    /\ inbox = <<>>
    /\ \E len \in Lengths :
         LET ab == Len(bufs) + 1
             m == [type |-> "frame", buffer |-> ab]
         IN /\ bufs' = Append(bufs, [content |-> ab, len |-> len, owner |-> "worker"])
            /\ inbox' = Append(inbox, m)
            /\ posted' = Append(posted, m)
    /\ UNCHANGED <<workerVars, worker, toMain, handled, uploads, draws, sent,
                   controlVars, controlHist>>
    /\ UNCHANGED uiVars

\* The worker module as loaded, and nothing posted or received yet.
\* `null` of currentImageData and textureRef.current: no u32 is negative.
NoImage == [data |-> <<>>, width |-> -1, height |-> -1]

\* No call of updateProgressFromEvent yet.
NoSeek == [left |-> 0, width |-> 0, clientX |-> 0, fraction |-> <<0, 1>>]

\* ImageCanvas before its first message; ProgressBar after its first render;
\* the component using useVideoFrame before its first render.
InitUi ==
    /\ currentImageData = NoImage /\ textureImage = NoImage /\ received = <<>>
    /\ isDragging = FALSE /\ dragPos = <<0, 1>> /\ progress = <<0, 1>>
    /\ listening = FALSE /\ pointer = <<>>
    /\ seek = NoSeek
    /\ vfId = NULL /\ frameRequests = {} /\ running = {} /\ vfRuns = 0
    /\ vfCleanup = FALSE /\ vfMounted = FALSE /\ lastId = 0 /\ fired = <<>>

InitCommon ==
    /\ InitUi
    /\ gl = NULL /\ videoW = 0 /\ videoH = 0
    /\ texture = NoTexture /\ program = NULL /\ vao = NULL
    /\ inbox = <<>> /\ toMain = <<>> /\ bufs = <<>>
    /\ posted = <<>> /\ handled = <<>> /\ uploads = <<>> /\ draws = <<>>
    /\ sent = <<>> /\ delivered = <<>> /\ logged = <<>> /\ unheard = 0
    /\ escaped = <<>> /\ access = <<>> /\ arrivedUp = <<>>
    /\ comp = "new" /\ effect = "none" /\ runs = 0
    /\ canvasTransferred = FALSE /\ leaked = 0 /\ ws = "none"
    /\ status = "idle" /\ onmessage = FALSE

InitWorker ==
    /\ InitCommon
    /\ worker = "alive"
    /\ offscreenSupported = TRUE
    /\ faults = FALSE
    /\ cancelSupported = TRUE

NextWorker == ClientPostInit \/ ClientPostFrame \/ WorkerOnMessage

SpecWorker == InitWorker /\ [][NextWorker]_vars

\* ---------------------------------------------------------- VideoCanvas.tsx
\* The control thread runs one task at a time: between posting init (line 39)
\* and the end of the effect body only the worker can take steps.
MainIdle == effect # "posted"

Frames(abs) == [k \in 1..Len(abs) |-> [type |-> "frame", buffer |-> abs[k]]]

\* ws.close()
CloseSocket(s) == IF s \in {"connecting", "open"} THEN "closing" ELSE s

\* Faulty variant: a copy is posted first, then the buffer itself is transferred.
wsOnMessage_CopyFirst(len, st) ==
    LET ab == Len(bufs) + 1
        use(op, owner) == [buffer |-> ab, op |-> op, owner |-> owner]
        buf(owner) == [content |-> ab, len |-> len, owner |-> owner]
    IN [newBufs |-> <<buf("worker"), buf("control"), buf("worker")>>,
        msgBufs |-> <<ab + 2, ab>>,
        reads   |-> <<use("slice", "control"), use("transfer", "control")>>,
        thrown  |-> <<>>]

\* Faulty variant: the fallback runs after a transfer that succeeded as well.
wsOnMessage_AlwaysFallback(len, st) ==
    LET ab == Len(bufs) + 1
        use(op, owner) == [buffer |-> ab, op |-> op, owner |-> owner]
        buf(owner) == [content |-> ab, len |-> len, owner |-> owner]
    IN [newBufs |-> <<buf("worker")>>,
        msgBufs |-> <<ab>>,
        reads   |-> <<use("transfer", "control"), use("slice", "worker")>>,
        thrown  |-> <<"TypeError">>]

\* Faulty variant: a frame is posted only when none is waiting in the worker's queue.
wsOnMessage_OneInFlight(len, st) ==
    LET ab == Len(bufs) + 1
        use(op, owner) == [buffer |-> ab, op |-> op, owner |-> owner]
        buf(owner) == [content |-> ab, len |-> len, owner |-> owner]
        busy == \E i \in 1..Len(inbox) : inbox[i].type = "frame"
    IN [newBufs |-> <<buf(IF busy THEN "control" ELSE "worker")>>,
        msgBufs |-> IF busy THEN <<>> ELSE <<ab>>,
        reads   |-> IF busy THEN <<>> ELSE <<use("transfer", "control")>>,
        thrown  |-> <<>>]

\* The body of ws.onmessage for a message of `len` bytes whose buffer is in
\* state st: "attached" (what a WebSocket hands over), "detached" (already
\* neutered), or "pinned" (attached, but the transfer raises DataCloneError).
\* newBufs: the buffers the handler leaves behind, the event's first;
\* msgBufs: the buffers of the frame messages it posts; reads: its uses of
\* ev.data; thrown: what leaves the handler.
\*   try   { worker.postMessage({type: "frame", buffer: ab}, [ab]) }
\*   catch { worker.postMessage({type: "frame", buffer: ab.slice(0)}, []) }
\* ab.slice throws TypeError on a detached buffer; a message posted without a
\* transfer list carries a structured clone of the copy.
wsOnMessage(len, st) ==
    LET ab == Len(bufs) + 1
        use(op, owner) == [buffer |-> ab, op |-> op, owner |-> owner]
        buf(owner) == [content |-> ab, len |-> len, owner |-> owner]
    IN CASE st = "attached" ->
              [newBufs |-> <<buf("worker")>>,
               msgBufs |-> <<ab>>,
               reads   |-> <<use("transfer", "control")>>,
               thrown  |-> <<>>]
         [] st = "detached" ->
              [newBufs |-> <<buf("nobody")>>,
               msgBufs |-> <<>>,
               reads   |-> <<use("transfer", "nobody"), use("slice", "nobody")>>,
               thrown  |-> <<"TypeError">>]
         [] st = "pinned" ->
              [newBufs |-> <<buf("control"), buf("control"), buf("worker")>>,
               msgBufs |-> <<ab + 2>>,
               reads   |-> <<use("transfer", "control"), use("slice", "control")>>,
               thrown  |-> <<>>]

Faulty(ds) == Cardinality({k \in 1..Len(ds) : ds[k].st # "attached"})

\* Faulty variant: the handler runs only once the worker has emptied its queue.
WsMessage_AwaitsWorker ==
    /\ MainIdle
    /\ ws = "open"
    /\ inbox = <<>>
    /\ Len(delivered) < MaxFrames
    /\ \E len \in Lengths :
       \E st \in (IF faults /\ Faulty(delivered) < MaxFaults /\ len \in FaultyLengths
                  THEN {"attached", "detached", "pinned"}
                  ELSE {"attached"}) :
         LET r == wsOnMessage(len, st)
         IN /\ delivered' = Append(delivered, [buffer |-> Len(bufs) + 1, len |-> len, st |-> st])
            /\ arrivedUp' = Append(arrivedUp, worker = "alive" /\ gl # NULL /\ texture.ctx # NULL /\ program # NULL)
            /\ bufs' = bufs \o r.newBufs
            /\ posted' = posted \o Frames(r.msgBufs)
            /\ inbox' = IF worker = "alive" THEN inbox \o Frames(r.msgBufs) ELSE inbox
            /\ access' = access \o r.reads
            /\ escaped' = escaped \o r.thrown
    /\ UNCHANGED <<workerVars, worker, toMain, handled, uploads, draws, sent,
                   controlVars, logged, unheard>>
    /\ UNCHANGED uiVars

\* Faulty variant: the frame is put in front of the messages already queued.
WsMessage_JumpsQueue ==
    /\ MainIdle
    /\ ws = "open"
    /\ Len(delivered) < MaxFrames
    /\ \E len \in Lengths :
       \E st \in (IF faults /\ Faulty(delivered) < MaxFaults /\ len \in FaultyLengths
                  THEN {"attached", "detached", "pinned"}
                  ELSE {"attached"}) :
         LET r == wsOnMessage(len, st)
         IN /\ delivered' = Append(delivered, [buffer |-> Len(bufs) + 1, len |-> len, st |-> st])
            /\ arrivedUp' = Append(arrivedUp, worker = "alive" /\ gl # NULL /\ texture.ctx # NULL /\ program # NULL)
            /\ bufs' = bufs \o r.newBufs
            /\ posted' = posted \o Frames(r.msgBufs)
            /\ inbox' = IF worker = "alive" THEN Frames(r.msgBufs) \o inbox ELSE inbox
            /\ access' = access \o r.reads
            /\ escaped' = escaped \o r.thrown
    /\ UNCHANGED <<workerVars, worker, toMain, handled, uploads, draws, sent,
                   controlVars, logged, unheard>>
    /\ UNCHANGED uiVars

\* ws.onmessage = (ev) => ...: one binary message arrives on the open socket.
\* Posting to a terminated worker does nothing.
WsMessage ==
    /\ MainIdle
    /\ ws = "open"
    /\ Len(delivered) < MaxFrames
    /\ \E len \in Lengths :
       \E st \in (IF faults /\ Faulty(delivered) < MaxFaults /\ len \in FaultyLengths
                  THEN {"attached", "detached", "pinned"}
                  ELSE {"attached"}) :
         LET r == wsOnMessage(len, st)
         IN /\ delivered' = Append(delivered, [buffer |-> Len(bufs) + 1, len |-> len, st |-> st])
            /\ arrivedUp' = Append(arrivedUp, worker = "alive" /\ gl # NULL /\ texture.ctx # NULL /\ program # NULL)
            /\ bufs' = bufs \o r.newBufs
            /\ posted' = posted \o Frames(r.msgBufs)
            /\ inbox' = IF worker = "alive" THEN inbox \o Frames(r.msgBufs) ELSE inbox
            /\ access' = access \o r.reads
            /\ escaped' = escaped \o r.thrown
    /\ UNCHANGED <<workerVars, worker, toMain, handled, uploads, draws, sent,
                   controlVars, logged, unheard>>
    /\ UNCHANGED uiVars

\* setStatus: the state of an unmounted component no longer changes.
SetStatus(v) == status' = IF comp = "mounted" THEN v ELSE status

\* ws.onopen
WsOpen ==
    /\ MainIdle
    /\ ws = "connecting"
    /\ ws' = "open"
    /\ SetStatus("connected")
    /\ UNCHANGED <<workerVars, worker, inbox, toMain, bufs, posted, handled, uploads,
                   draws, sent, comp, effect, runs, offscreenSupported,
                   canvasTransferred, leaked, onmessage, faults, controlHist>>
    /\ UNCHANGED uiVars

\* ws.onerror: the connection failed; its close event follows.
WsError ==
    /\ MainIdle
    /\ ws \in {"connecting", "open"}
    /\ ws' = "failed"
    /\ SetStatus("ws-error")
    /\ UNCHANGED <<workerVars, worker, inbox, toMain, bufs, posted, handled, uploads,
                   draws, sent, comp, effect, runs, offscreenSupported,
                   canvasTransferred, leaked, onmessage, faults, controlHist>>
    /\ UNCHANGED uiVars

\* Faulty variant: the close handler of a mounted component reconnects.
WsClose_Reconnect ==
    /\ MainIdle
    /\ ws \in {"open", "closing", "failed"}
    /\ ws' = IF comp = "mounted" THEN "connecting" ELSE "closed"
    /\ SetStatus("closed")
    /\ UNCHANGED <<workerVars, worker, inbox, toMain, bufs, posted, handled, uploads,
                   draws, sent, comp, effect, runs, offscreenSupported,
                   canvasTransferred, leaked, onmessage, faults, controlHist>>
    /\ UNCHANGED uiVars

\* ws.onclose: closed by the peer, after ws.close(), or after a failure.
WsClose ==
    /\ MainIdle
    /\ ws \in {"open", "closing", "failed"}
    /\ ws' = "closed"
    /\ SetStatus("closed")
    /\ UNCHANGED <<workerVars, worker, inbox, toMain, bufs, posted, handled, uploads,
                   draws, sent, comp, effect, runs, offscreenSupported,
                   canvasTransferred, leaked, onmessage, faults, controlHist>>
    /\ UNCHANGED uiVars

\* worker.onmessage = (ev) => ...: one event of the worker -> control queue.
MainOnWorkerMessage ==
    /\ MainIdle
    /\ toMain # <<>>
    /\ toMain' = Tail(toMain)
    /\ LET d == Head(toMain)
       IN IF onmessage
          THEN /\ logged' = IF d.type = "error" THEN Append(logged, d.message) ELSE logged
               /\ UNCHANGED unheard
          ELSE /\ unheard' = unheard + 1
               /\ UNCHANGED logged
    /\ UNCHANGED <<workerVars, worker, inbox, bufs, posted, handled, uploads, draws,
                   sent, controlVars, delivered, escaped, access, arrivedUp>>
    /\ UNCHANGED uiVars

\* Faulty variant: the canvas can hand over its control again on a re-run.
RunEffect_Retransfer(d, workerOK, cleanupFirst) ==
    LET wsC == IF cleanupFirst THEN CloseSocket(ws) ELSE ws
        workerC == IF cleanupFirst THEN "terminated" ELSE worker
        inboxC == IF cleanupFirst THEN <<>> ELSE inbox
        toMainC == IF cleanupFirst THEN <<>> ELSE toMain
    IN /\ runs' = runs + 1
       /\ ws' = wsC
       /\ toMain' = toMainC
       /\ IF ~workerOK
          THEN /\ status' = "no-worker"
               /\ effect' = "bailed"
               /\ worker' = workerC /\ inbox' = inboxC
               /\ UNCHANGED <<leaked, canvasTransferred, posted>>
          ELSE IF ~offscreenSupported
          THEN /\ status' = "no-offscreen"
               /\ effect' = "bailed"
               /\ leaked' = leaked + 1
               /\ worker' = workerC /\ inbox' = inboxC
               /\ UNCHANGED <<canvasTransferred, posted>>
          ELSE IF FALSE
          THEN /\ effect' = "bailed"
               /\ leaked' = leaked + 1
               /\ worker' = workerC /\ inbox' = inboxC
               /\ UNCHANGED <<status, canvasTransferred, posted>>
          ELSE LET m == [type |-> "init", canvas |-> runs + 1,
                         videoWidth |-> d[1], videoHeight |-> d[2]]
               IN /\ canvasTransferred' = TRUE
                  /\ worker' = "alive"
                  /\ inbox' = Append(inboxC, m)
                  /\ posted' = Append(posted, m)
                  /\ effect' = "posted"
                  /\ UNCHANGED <<status, leaked>>

\* The effect body up to and including line 39, preceded by the previous
\* run's cleanup when that run registered one.  new Worker(...) may throw; a
\* <canvas> whose control was transferred once throws InvalidStateError on
\* the next transferControlToOffscreen().  terminate() discards the worker's
\* queued messages and the events it posted that were not dispatched yet.
RunEffect(d, workerOK, cleanupFirst) ==
    LET wsC == IF cleanupFirst THEN CloseSocket(ws) ELSE ws
        workerC == IF cleanupFirst THEN "terminated" ELSE worker
        inboxC == IF cleanupFirst THEN <<>> ELSE inbox
        toMainC == IF cleanupFirst THEN <<>> ELSE toMain
    IN /\ runs' = runs + 1
       /\ ws' = wsC
       /\ toMain' = toMainC
       /\ IF ~workerOK
          THEN /\ status' = "no-worker"
               /\ effect' = "bailed"
               /\ worker' = workerC /\ inbox' = inboxC
               /\ UNCHANGED <<leaked, canvasTransferred, posted>>
          ELSE IF ~offscreenSupported
          THEN /\ status' = "no-offscreen"
               /\ effect' = "bailed"
               /\ leaked' = leaked + 1
               /\ worker' = workerC /\ inbox' = inboxC
               /\ UNCHANGED <<canvasTransferred, posted>>
          ELSE IF canvasTransferred
          THEN /\ effect' = "bailed"
               /\ leaked' = leaked + 1
               /\ worker' = workerC /\ inbox' = inboxC
               /\ UNCHANGED <<status, canvasTransferred, posted>>
          ELSE LET m == [type |-> "init", canvas |-> runs + 1,
                         videoWidth |-> d[1], videoHeight |-> d[2]]
               IN /\ canvasTransferred' = TRUE
                  /\ worker' = "alive"
                  /\ inbox' = Append(inboxC, m)
                  /\ posted' = Append(posted, m)
                  /\ effect' = "posted"
                  /\ UNCHANGED <<status, leaked>>

\* First render: the effect runs for the first time.
Mount ==
    /\ comp = "new"
    /\ comp' = "mounted"
    /\ \E d \in DimPairs, workerOK \in BOOLEAN : RunEffect(d, workerOK, FALSE)
    /\ UNCHANGED <<workerVars, bufs, handled, uploads, draws, sent,
                   offscreenSupported, onmessage, faults, controlHist>>
    /\ UNCHANGED uiVars

\* wsUrl, videoWidth or videoHeight changed: cleanup, then the effect again.
Rerun ==
    /\ MainIdle
    /\ comp = "mounted"
    /\ runs < MaxRuns
    /\ \E d \in DimPairs, workerOK \in BOOLEAN : RunEffect(d, workerOK, effect = "active")
    /\ UNCHANGED <<workerVars, bufs, handled, uploads, draws, sent, comp,
                   offscreenSupported, onmessage, faults, controlHist>>
    /\ UNCHANGED uiVars

\* Faulty variant: worker.onmessage is never set.
EffectAttach_NoHandler ==
    /\ effect = "posted"
    /\ ws' = "connecting"
    /\ effect' = "active"
    /\ UNCHANGED <<workerVars, worker, inbox, toMain, bufs, posted, handled, uploads,
                   draws, sent, comp, runs, offscreenSupported, onmessage,
                   canvasTransferred, leaked, status, faults, controlHist>>
    /\ UNCHANGED uiVars

\* Faulty variant: the init message is posted a second time.
EffectAttach_InitAgain ==
    /\ effect = "posted"
    /\ onmessage' = TRUE
    /\ ws' = "connecting"
    /\ effect' = "active"
    /\ inbox' = Append(inbox, posted[1])
    /\ posted' = Append(posted, posted[1])
    /\ UNCHANGED <<workerVars, worker, toMain, bufs, handled, uploads,
                   draws, sent, comp, runs, offscreenSupported,
                   canvasTransferred, leaked, status, faults, controlHist>>
    /\ UNCHANGED uiVars

\* The rest of the effect body (lines 41-75): worker.onmessage, the socket.
EffectAttach ==
    /\ effect = "posted"
    /\ onmessage' = TRUE
    /\ ws' = "connecting"
    /\ effect' = "active"
    /\ UNCHANGED <<workerVars, worker, inbox, toMain, bufs, posted, handled, uploads,
                   draws, sent, comp, runs, offscreenSupported,
                   canvasTransferred, leaked, status, faults, controlHist>>
    /\ UNCHANGED uiVars

\* Faulty variant: the cleanup closes the socket and leaves the worker running.
Unmount_NoTerminate ==
    /\ MainIdle
    /\ comp = "mounted"
    /\ comp' = "unmounted"
    /\ effect' = "none"
    /\ IF effect = "active"
       THEN /\ ws' = CloseSocket(ws)
            /\ UNCHANGED <<worker, inbox, toMain>>
       ELSE UNCHANGED <<ws, worker, inbox, toMain>>
    /\ UNCHANGED <<workerVars, bufs, posted, handled, uploads, draws, sent, runs,
                   offscreenSupported, canvasTransferred, leaked, status,
                   onmessage, faults, controlHist>>
    /\ UNCHANGED uiVars

\* The component is removed: the cleanup of the last run, if it has one.
Unmount ==
    /\ MainIdle
    /\ comp = "mounted"
    /\ comp' = "unmounted"
    /\ effect' = "none"
    /\ IF effect = "active"
       THEN /\ ws' = CloseSocket(ws)
            /\ worker' = "terminated"
            /\ inbox' = <<>>
            /\ toMain' = <<>>
       ELSE UNCHANGED <<ws, worker, inbox, toMain>>
    /\ UNCHANGED <<workerVars, bufs, posted, handled, uploads, draws, sent, runs,
                   offscreenSupported, canvasTransferred, leaked, status,
                   onmessage, faults, controlHist>>
    /\ UNCHANGED uiVars

Init ==
    /\ InitCommon
    /\ worker = "none"
    /\ offscreenSupported \in BOOLEAN
    /\ faults = FALSE
    /\ cancelSupported = TRUE

InitFaulty ==
    /\ InitCommon
    /\ worker = "none"
    /\ offscreenSupported \in BOOLEAN
    /\ faults = TRUE
    /\ cancelSupported = TRUE

Next ==
    \/ Mount \/ EffectAttach \/ Rerun \/ Unmount
    \/ WsOpen \/ WsMessage \/ WsError \/ WsClose
    \/ MainOnWorkerMessage
    \/ WorkerOnMessage

\* VideoCanvas with a socket that hands over fresh buffers.
Spec == Init /\ [][Next]_vars
\* The same, with buffers whose transfer raises.
SpecFaulty == InitFaulty /\ [][Next]_vars

\* The same as Spec, with the worker's event loop running: a message that
\* stays queued for a live worker is eventually handled.
SpecLive == Init /\ [][Next]_vars /\ WF_vars(WorkerOnMessage)

\* ------------------------------------------- ImageCanvas (src/src/App.tsx)
\* An ArrayBuffer of this path is the sequence of its bytes.

\* Binary messages the socket listener is handed (SpecImage).
MaxImages == 2
\* Length of the width/height header: `data.byteLength < 8`, `data.slice(0, 8)`.
HeaderBytes == 8

\* A u32 as the backend serialises it: four bytes, least significant first.
Uint32LE(n) == <<n % 256, (n \div 256) % 256, (n \div 65536) % 256, (n \div 16777216) % 256>>
\* n bytes of value v.
Bytes(n, v) == [i \in 1..n |-> v]

\* (width, height) pairs a header announces.
ImageDims == {<<1, 1>>, <<2, 1>>, <<256, 1>>}
\* Lengths of the pixel payload after the header.
PayloadLengths == {0, 4, 8}
\* Byte values pixel payloads are filled with.
PixelValues == {7, 9}
\* The binary messages of a source: two too short for a header, the others a
\* header followed by a payload.
ImageMessages ==
    {Bytes(n, 5) : n \in {0, 4}}
    \cup {Uint32LE(d[1]) \o Uint32LE(d[2]) \o Bytes(n, v) :
            d \in ImageDims, n \in PayloadLengths, v \in PixelValues}

\* ArrayBuffer.prototype.slice(begin, end)
slice(data, begin, end) == SubSeq(data, begin + 1, end)
\* DataView.prototype.getUint32(byteOffset, littleEndian)
getUint32(view, byteOffset, littleEndian) ==
    LET b(i) == view[byteOffset + i]
    IN IF littleEndian
       THEN b(1) + 256 * b(2) + 65536 * b(3) + 16777216 * b(4)
       ELSE b(4) + 256 * b(3) + 65536 * b(2) + 16777216 * b(1)

\* handleIncomingData: the image state after the call, and whether it logged
\* "Received message too short for header.".
handleIncomingData(cur, data) ==
    IF Len(data) < HeaderBytes
    THEN [error |-> TRUE, image |-> cur]
    ELSE LET headerBuffer == slice(data, 0, HeaderBytes)
             pixelDataBuffer == slice(data, HeaderBytes, Len(data))
             width == getUint32(headerBuffer, 0, TRUE)
             height == getUint32(headerBuffer, 4, TRUE)
         IN [error |-> FALSE,
             image |-> [data |-> pixelDataBuffer, width |-> width, height |-> height]]

\* The two effects of ImagePlane on [imageData]: the first creates the
\* DataTexture when there is none, the second copies data, width and height
\* into texture.image.  ImagePlane is rendered only for non-null image data.
ImagePlaneEffects(tex, imageData) ==
    IF imageData = NoImage
    THEN tex
    ELSE LET created == IF tex = NoImage
                        THEN [data |-> imageData.data, width |-> imageData.width,
                              height |-> imageData.height]
                        ELSE tex
         IN [created EXCEPT !.data = imageData.data, !.width = imageData.width,
                            !.height = imageData.height]

\* The listener added to the socket: binary messages go to handleIncomingData,
\* the state update is committed and ImagePlane's effects run.
SocketListener ==
    /\ Len(received) < MaxImages
    /\ \E type \in {"Binary", "Text"} :
         \E data \in IF type = "Binary" THEN ImageMessages ELSE {<<>>} :
           LET r == IF type = "Binary"
                    THEN handleIncomingData(currentImageData, data)
                    ELSE [error |-> FALSE, image |-> currentImageData]
           IN /\ currentImageData' = r.image
              /\ textureImage' = ImagePlaneEffects(textureImage, r.image)
              /\ received' = Append(received, [type |-> type, data |-> data,
                                               error |-> r.error,
                                               before |-> currentImageData,
                                               after |-> r.image])
    /\ UNCHANGED <<workerVars, worker, inbox, toMain, bufs, posted, handled, uploads,
                   draws, sent, controlVars, controlHist, barVars, clampVars,
                   frameVars>>

InitImage ==
    /\ InitCommon
    /\ worker = "none"
    /\ offscreenSupported = TRUE
    /\ faults = FALSE
    /\ cancelSupported = TRUE

NextImage == SocketListener

\* ImageCanvas fed by a socket.
SpecImage == InitImage /\ [][NextImage]_vars

\* --------------------------------------- ProgressBar (src/unnamed/part_000)
\* A number of this component is a fraction in lowest terms, <<numerator,
\* denominator>>.  A handler, the render it causes and the effect of that
\* render (which re-registers the window listeners) are one step: the next
\* pointer event finds the listeners of the latest render.

\* Pointer events on the bar and the window (SpecBar).
MaxPointer == 3

\* barRef.current.getBoundingClientRect()
BarRect == [left |-> 2, width |-> 4]
\* e.clientX of the pointer events: left of, on and right of the bar.
ClientXs == {0, 3, 4, 6, 8}
\* Values of props.progress.
ProgressValues == {<<0, 1>>, <<1, 2>>}

RECURSIVE GCD(_, _)
GCD(a, b) == IF b = 0 THEN a ELSE GCD(b, a % b)
\* n / d for n >= 0, d > 0
Frac(n, d) == LET g == GCD(n, d) IN <<n \div g, d \div g>>

\* Faulty variant: the quotient is passed on unclamped above.
updateProgressFromEvent_NoUpperClamp(rect, clientX) ==
    LET x == clientX - rect.left
    IN IF x < 0 THEN <<0, 1>> ELSE Frac(x, rect.width)

\* updateProgressFromEvent: the fraction handed to setDragPos and
\* props.onChange.  barRef.current is set for as long as the bar is mounted,
\* so the early return of line 63 is not taken by any pointer event.
updateProgressFromEvent(rect, clientX) ==
    LET x == clientX - rect.left
        atLeast0 == IF x < 0 THEN <<0, 1>> ELSE Frac(x, rect.width)
    IN IF atLeast0[1] > atLeast0[2] THEN <<1, 1>> ELSE atLeast0

\* Faulty variant: the effect has an empty dependency list and keeps the
\* listeners of the first render.
useEffectListeners_Once(rendered, registered) == registered

\* The effect without dependency list (lines 91-98): after every render the
\* window listeners are those of that render, with its isDragging.
useEffectListeners(rendered, registered) == rendered

\* Faulty variant: the fill always shows props.progress.
Fill_External == <<progress[1] * 100, progress[2]>>

\* The width of .pbardrag in percent (line 102), as <<numerator, denominator>>.
Fill ==
    LET shown == IF isDragging THEN dragPos ELSE progress
    IN <<shown[1] * 100, shown[2]>>

\* onMouseDown of .pbar
handleMouseDown ==
    /\ Len(pointer) < MaxPointer
    /\ \E clientX \in ClientXs :
         LET calls == <<updateProgressFromEvent(BarRect, clientX)>>
         IN /\ isDragging' = TRUE
            /\ dragPos' = IF calls = <<>> THEN dragPos ELSE calls[1]
            /\ pointer' = Append(pointer, [type |-> "down", clientX |-> clientX,
                                           calls |-> calls])
    /\ listening' = useEffectListeners(isDragging', listening)
    /\ UNCHANGED <<workerVars, worker, inbox, toMain, bufs, posted, handled, uploads,
                   draws, sent, controlVars, controlHist, imageVars, clampVars,
                   frameVars, progress>>

\* "mousemove" on window
handleMouseMove ==
    /\ Len(pointer) < MaxPointer
    /\ \E clientX \in ClientXs :
         LET calls == IF listening
                      THEN <<updateProgressFromEvent(BarRect, clientX)>>
                      ELSE <<>>
         IN /\ dragPos' = IF calls = <<>> THEN dragPos ELSE calls[1]
            /\ pointer' = Append(pointer, [type |-> "move", clientX |-> clientX,
                                           calls |-> calls])
    /\ listening' = useEffectListeners(isDragging, listening)
    /\ UNCHANGED <<workerVars, worker, inbox, toMain, bufs, posted, handled, uploads,
                   draws, sent, controlVars, controlHist, imageVars, clampVars,
                   frameVars, progress,
                   isDragging>>

\* "mouseup" on window
handleMouseUp ==
    /\ Len(pointer) < MaxPointer
    /\ isDragging' = FALSE
    /\ dragPos' = <<0, 1>>
    /\ pointer' = Append(pointer, [type |-> "up", clientX |-> 0, calls |-> <<>>])
    /\ listening' = useEffectListeners(isDragging', listening)
    /\ UNCHANGED <<workerVars, worker, inbox, toMain, bufs, posted, handled, uploads,
                   draws, sent, controlVars, controlHist, imageVars, clampVars,
                   frameVars, progress>>

\* The parent renders ProgressBar with another progress value.
SetProgress ==
    /\ \E p \in ProgressValues \ {progress} : progress' = p
    /\ listening' = useEffectListeners(isDragging, listening)
    /\ UNCHANGED <<workerVars, worker, inbox, toMain, bufs, posted, handled, uploads,
                   draws, sent, controlVars, controlHist, imageVars, clampVars,
                   frameVars, isDragging,
                   dragPos, pointer>>

InitBar ==
    /\ InitCommon
    /\ worker = "none"
    /\ offscreenSupported = TRUE
    /\ faults = FALSE
    /\ cancelSupported = TRUE

NextBar == handleMouseDown \/ handleMouseMove \/ handleMouseUp \/ SetProgress

\* ProgressBar under pointer events and progress updates of its parent.
SpecBar == InitBar /\ [][NextBar]_vars

\* ------------------------------ updateProgressFromEvent as a function
\* Left edges, widths and pointer positions of a call (SpecClamp).
MaxLeft == 3
MaxWidth == 4
MaxClientX == 9

\* One pointer event on a bar at any position: the fraction it passes on.
SeekCall ==
    \E left \in 0..MaxLeft, width \in 1..MaxWidth, clientX \in 0..MaxClientX :
        seek' = [left |-> left, width |-> width, clientX |-> clientX,
                 fraction |-> updateProgressFromEvent([left |-> left, width |-> width],
                                                      clientX)]
    /\ UNCHANGED <<workerVars, worker, inbox, toMain, bufs, posted, handled, uploads,
                   draws, sent, controlVars, controlHist, imageVars, barVars,
                   frameVars>>

InitClamp ==
    /\ InitCommon
    /\ worker = "none"
    /\ offscreenSupported = TRUE
    /\ faults = FALSE
    /\ cancelSupported = TRUE

NextClamp == SeekCall

\* updateProgressFromEvent over bars and pointer positions.
SpecClamp == InitClamp /\ [][NextClamp]_vars

\* -------------------------------------- useVideoFrame (src/unnamed/part_000)
\* The hook's caller passes a new onFrame closure with every render, so the
\* effect runs again after every render.  Each run has its own `running`
\* flag and handleFrame closure; vfId is shared by all runs.  A callback
\* runs to completion before any render: onFrame only schedules one.

\* Runs of the effect (SpecFrame).
MaxVfRuns == 3
\* Frame callbacks the video runs (SpecFrame).
MaxFired == 3

\* Faulty variant: handleFrame does not look at `running`.
handleFrame_NoGuard(isRunning) == TRUE

\* handleFrame (lines 23-30): TRUE when it invokes onFrame and requests the
\* next frame callback, FALSE when it returns at `if (!running) return`.
handleFrame(isRunning) == isRunning

\* video.cancelVideoFrameCallback(vfId.current) under the guard of line 35.
Cancelled(requests) ==
    IF vfId # NULL /\ cancelSupported
    THEN {c \in requests : c.id # vfId}
    ELSE requests

\* The callbacks of a set in the order they were requested.
RECURSIVE InOrder(_)
InOrder(cbs) ==
    IF cbs = {} THEN <<>>
    ELSE LET first == CHOOSE c \in cbs : \A d \in cbs : c.id <= d.id
         IN <<first>> \o InOrder(cbs \ {first})

\* A render commits: the cleanup of the previous run, if it returned one, then
\* the effect body.  `starts`: videoRef.current is set and has
\* requestVideoFrameCallback, so the run requests a callback.
VfRender ==
    /\ vfRuns < MaxVfRuns
    /\ vfRuns = 0 \/ vfMounted
    /\ vfMounted' = TRUE
    /\ vfRuns' = vfRuns + 1
    /\ \E starts \in BOOLEAN :
         LET kept == IF vfCleanup THEN Cancelled(frameRequests) ELSE frameRequests
             stillRunning == IF vfCleanup THEN running \ {vfRuns} ELSE running
         IN IF starts
            THEN /\ lastId' = lastId + 1
                 /\ vfId' = lastId + 1
                 /\ frameRequests' = kept \cup {[id |-> lastId + 1, run |-> vfRuns + 1]}
                 /\ running' = stillRunning \cup {vfRuns + 1}
                 /\ vfCleanup' = TRUE
            ELSE /\ frameRequests' = kept
                 /\ running' = stillRunning
                 /\ vfCleanup' = FALSE
                 /\ UNCHANGED <<lastId, vfId>>
    /\ UNCHANGED <<workerVars, worker, inbox, toMain, bufs, posted, handled, uploads,
                   draws, sent, controlVars, controlHist, imageVars, barVars,
                   clampVars, cancelSupported, fired>>

\* The component is removed: the cleanup of the last run, if it returned one.
VfUnmount ==
    /\ vfMounted
    /\ vfMounted' = FALSE
    /\ vfCleanup' = FALSE
    /\ frameRequests' = IF vfCleanup THEN Cancelled(frameRequests) ELSE frameRequests
    /\ running' = IF vfCleanup THEN running \ {vfRuns} ELSE running
    /\ UNCHANGED <<workerVars, worker, inbox, toMain, bufs, posted, handled, uploads,
                   draws, sent, controlVars, controlHist, imageVars, barVars,
                   clampVars, cancelSupported, fired, vfId, vfRuns, lastId>>

\* The video presents a frame: its list of frame callbacks is emptied and
\* every callback that was in it runs; those that pass the `running` test
\* invoke onFrame and request the next callback, storing its handle in vfId.
VideoFrame ==
    /\ frameRequests # {}
    /\ Len(fired) + Cardinality(frameRequests) <= MaxFired
    /\ LET live == {c \in frameRequests : handleFrame(c.run \in running)}
           newId(c) == lastId + Cardinality({d \in live : d.id <= c.id})
           ran == InOrder(frameRequests)
       IN /\ frameRequests' = {[id |-> newId(c), run |-> c.run] : c \in live}
          /\ lastId' = lastId + Cardinality(live)
          /\ vfId' = IF live = {} THEN vfId ELSE lastId + Cardinality(live)
          /\ fired' = fired \o [i \in 1..Len(ran) |->
                                  [run |-> ran[i].run,
                                   cleaned |-> ran[i].run \notin running,
                                   invoked |-> ran[i] \in live]]
    /\ UNCHANGED <<workerVars, worker, inbox, toMain, bufs, posted, handled, uploads,
                   draws, sent, controlVars, controlHist, imageVars, barVars,
                   clampVars, cancelSupported, running, vfRuns, vfCleanup, vfMounted>>

InitFrame ==
    /\ InitCommon
    /\ worker = "none"
    /\ offscreenSupported = TRUE
    /\ faults = FALSE
    /\ cancelSupported \in BOOLEAN

NextFrame == VfRender \/ VfUnmount \/ VideoFrame

\* useVideoFrame under renders of its caller and frames of the video.
SpecFrame == InitFrame /\ [][NextFrame]_vars

\* ------------------------------------------------------------- properties
\* Reading the history.
IsInit(i) == handled[i].type = "init"
IsFrame(i) == handled[i].type = "frame"
\* The init message in force when message i was handled (0: none yet).
InitBefore(i) ==
    LET S == {j \in 1..(i - 1) : IsInit(j)}
    IN IF S = {} THEN 0 ELSE CHOOSE j \in S : \A k \in S : k <= j
\* Message i is a frame handled under a successful init(W, H) and W*H*4 long.
GoodFrame(i) ==
    /\ IsFrame(i)
    /\ InitBefore(i) # 0
    /\ LET init == handled[InitBefore(i)]
       IN /\ init.outcome = "ok"
          /\ handled[i].byteLength = init.videoWidth * init.videoHeight * BytesPerPixel
UploadsAt(i) == {k \in 1..Len(uploads) : uploads[k].at = i}
DrawsAt(i) == {k \in 1..Len(draws) : draws[k].at = i}
\* A W x H image every texel of which comes from buffer content c.
Image(w, h, c) == [t \in 1..(w * h) |-> c]
\* The worker's guard `!gl || !texture || !program` does not return.
Initialised == gl # NULL /\ texture.ctx # NULL /\ program # NULL
\* self.onmessage is about to handle / handles a frame message in this step.
HandlesFrame ==
    /\ worker = "alive" /\ inbox # <<>> /\ Head(inbox).type = "frame"
    /\ Len(handled') = Len(handled) + 1
WorkerSilent == UNCHANGED <<workerVars, uploads, draws, toMain, sent>>

\* C1: under a successful init(W,H), each frame of W*H*4 bytes is uploaded
\* exactly once and drawn exactly once, the draw shows that buffer in every
\* texel, and the texture afterwards holds the last such buffer (or the blank
\* allocation when there was none yet).
C1_OneDrawPerAcceptedFrame ==
    /\ \A i \in 1..Len(handled) :
          GoodFrame(i) =>
            LET init == handled[InitBefore(i)]
                img == Image(init.videoWidth, init.videoHeight, handled[i].content)
            IN /\ Cardinality(UploadsAt(i)) = 1
               /\ Cardinality(DrawsAt(i)) = 1
               /\ \A k \in DrawsAt(i) : draws[k].shown = img
               /\ \A k \in UploadsAt(i) : uploads[k].content = handled[i].content
    /\ LET n == Len(handled)
           j == InitBefore(n + 1)
       IN (j # 0 /\ handled[j].outcome = "ok") =>
            LET G == {i \in (j + 1)..n : GoodFrame(i)}
                c == IF G = {} THEN 0
                     ELSE handled[CHOOSE i \in G : \A k \in G : k <= i].content
            IN texture.data = Image(handled[j].videoWidth, handled[j].videoHeight, c)

C1_Witness ==
    \E i, k \in 1..Len(handled) :
        /\ i < k /\ GoodFrame(i) /\ GoodFrame(k) /\ InitBefore(i) = InitBefore(k)
        /\ k = Len(handled)
        /\ handled[InitBefore(k)].videoWidth = 2

\* The step and the state halves of C2.
C2_DropStep ==
    (HandlesFrame /\ Initialised
        /\ ByteLength(Head(inbox).buffer) # videoW * videoH * BytesPerPixel)
    => WorkerSilent
C2_ValidAfterDrop ==
    \A i \in 2..Len(handled) :
        (GoodFrame(i) /\ IsFrame(i - 1) /\ ~GoodFrame(i - 1)
            /\ InitBefore(i) = InitBefore(i - 1))
        => (Cardinality(UploadsAt(i)) = 1 /\ Cardinality(DrawsAt(i)) = 1
            /\ \A k \in DrawsAt(i) : handled[i].content \in {draws[k].shown[t] : t \in DOMAIN draws[k].shown})
\* C2: in an initialised worker a frame whose length is not videoW*videoH*4
\* changes no worker variable, uploads and draws nothing and posts nothing;
\* and a correctly sized frame right after a dropped one is uploaded and drawn.
C2_MismatchDropped == [][C2_DropStep]_vars /\ []C2_ValidAfterDrop

C2_Witness ==
    \E i \in 2..Len(handled) :
        /\ GoodFrame(i) /\ IsFrame(i - 1) /\ ~GoodFrame(i - 1)
        /\ InitBefore(i) = InitBefore(i - 1)
        /\ DrawsAt(i - 1) = {} /\ DrawsAt(i) # {}

\* The step and the state halves of C4.
OkInitBefore(i) == \E j \in 1..(i - 1) : IsInit(j) /\ handled[j].outcome = "ok"
C4_NullStep == (HandlesFrame /\ ~Initialised) => WorkerSilent
C4_NoCallBeforeOkInit ==
    /\ \A k \in 1..Len(uploads) : OkInitBefore(uploads[k].at)
    /\ \A k \in 1..Len(draws) : OkInitBefore(draws[k].at)
\* C4: every upload and every draw comes after a successfully handled init,
\* and a frame handled while gl, texture or program is null changes nothing.
C4_NoDrawBeforeInit == [][C4_NullStep]_vars /\ []C4_NoCallBeforeOkInit

C4_Witness ==
    \E i, j \in 1..Len(handled) :
        /\ j < i /\ IsInit(j) /\ handled[j].outcome = "link"
        /\ IsFrame(i) /\ ~OkInitBefore(i)
        /\ handled[i].byteLength = handled[j].videoWidth * handled[j].videoHeight * BytesPerPixel
        /\ draws = <<>> /\ uploads = <<>>

\* C5: after an init whose initialisation fails, no later frame (until the
\* next init message) is uploaded or drawn, whatever was handled before.
C5_FailedInitInert ==
    \A j, i \in 1..Len(handled) :
        (IsInit(j) /\ handled[j].outcome # "ok" /\ IsFrame(i) /\ InitBefore(i) = j)
        => (UploadsAt(i) = {} /\ DrawsAt(i) = {})

\* ----------------------------------------------- properties of VideoCanvas
\* The worker VideoCanvas initialised handled its init message successfully.
InitOk == handled # <<>> /\ handled[1].type = "init" /\ handled[1].outcome = "ok"
\* videoWidth * videoHeight * 4 of the init message VideoCanvas posted.
ExpectedLen == posted[1].videoWidth * posted[1].videoHeight * BytesPerPixel
\* The socket messages of that length, in arrival order.
SizedRight == SelectSeq(delivered, LAMBDA d : d.len = ExpectedLen)
FrameCount(q) == Cardinality({i \in 1..Len(q) : q[i].type = "frame"})
\* A handled message as it was posted.
AsPosted(h) ==
    IF h.type = "init"
    THEN [type |-> "init", canvas |-> h.canvas,
          videoWidth |-> h.videoWidth, videoHeight |-> h.videoHeight]
    ELSE [type |-> "frame", buffer |-> h.buffer]
HandledAsPosted == [i \in 1..Len(handled) |-> AsPosted(handled[i])]
IsPrefix(s, t) == Len(s) <= Len(t) /\ \A i \in 1..Len(s) : s[i] = t[i]
FailedInits == SelectSeq(handled, LAMBDA h : h.type = "init" /\ h.outcome # "ok")

\* C3: with a successful init, the k-th draw shows the k-th socket message of
\* length videoWidth*videoHeight*4, there are never more draws than such
\* messages, and exactly as many once the worker has emptied its queue.
C3_DrawsAreSizedFramesInOrder ==
    InitOk =>
        /\ Len(draws) <= Len(SizedRight)
        /\ \A k \in 1..Len(draws) :
              draws[k].shown = Image(posted[1].videoWidth, posted[1].videoHeight,
                                     bufs[SizedRight[k].buffer].content)
        /\ (worker = "alive" /\ inbox = <<>>) => Len(draws) = Len(SizedRight)

C3_Witness ==
    /\ InitOk /\ worker = "alive" /\ inbox = <<>> /\ ws = "open"
    /\ Len(delivered) = 3
    /\ delivered[1].len = ExpectedLen
    /\ delivered[2].len # ExpectedLen
    /\ delivered[3].len = ExpectedLen
    /\ Len(draws) = 2
    /\ draws[2].shown = Image(posted[1].videoWidth, posted[1].videoHeight,
                              bufs[delivered[3].buffer].content)

\* C6 (as claimed): every failing init posts one error event, nothing else posts
\* an event, and every posted event is waiting for or has been received by
\* worker.onmessage.
C6_ErrorAlwaysReceived ==
    /\ Len(sent) = Len(FailedInits)
    /\ unheard = 0
    /\ Len(sent) = Len(logged) + Len(toMain)

\* C6 (amended): every failing init posts exactly one error event carrying its
\* diagnostic, successful inits and frames post nothing, no event is dispatched
\* while worker.onmessage is unset, and while the worker is not terminated every
\* posted event is waiting for or has been received by worker.onmessage.
C6_ErrorReceivedUnlessTerminated ==
    /\ Len(sent) = Len(FailedInits)
    /\ \A k \in 1..Len(sent) :
          sent[k] = [type |-> "error", message |-> InitError(FailedInits[k].outcome)]
    /\ unheard = 0
    /\ IsPrefix(logged, [k \in 1..Len(sent) |-> sent[k].message])
    /\ worker = "alive" => Len(sent) = Len(logged) + Len(toMain)

C6_Witness ==
    /\ Len(FailedInits) = 1
    /\ logged = <<InitError(handled[1].outcome)>>
    /\ FrameCount(handled) >= 1
    /\ worker = "alive"

\* C7: the worker handles messages in the order they were posted, the first
\* posted message is the init and all others are frames, and the posted frames
\* are the socket messages' buffers in arrival order, each once.
C7_FifoInitFirst ==
    /\ IsPrefix(HandledAsPosted, posted)
    /\ worker = "alive" => HandledAsPosted \o inbox = posted
    /\ posted # <<>> =>
          /\ posted[1].type = "init"
          /\ \A i \in 2..Len(posted) : posted[i].type = "frame"
          /\ [i \in 1..(Len(posted) - 1) |-> posted[i + 1].buffer]
                = [i \in 1..Len(delivered) |-> delivered[i].buffer]
    /\ posted = <<>> => delivered = <<>>

C7_Witness ==
    /\ Len(handled) = 3 /\ FrameCount(handled) = 2
    /\ Len(inbox) = 1
    /\ Len(delivered) = 3

\* C8: whenever the transfer raises, a frame carrying the message's bytes is
\* posted all the same and no exception leaves ws.onmessage.
C8_FallbackCopies ==
    /\ escaped = <<>>
    /\ \A k \in 1..Len(delivered) :
          delivered[k].st # "attached" =>
            \E i \in 1..Len(posted) :
                /\ posted[i].type = "frame"
                /\ bufs[posted[i].buffer].content = bufs[delivered[k].buffer].content
                /\ bufs[posted[i].buffer].len = delivered[k].len

\* C9: the control thread never uses a buffer that belongs to the worker, and
\* a buffer a frame message carries belongs to the worker and to nobody else:
\* the control thread keeps only buffers that no message carries.
C9_SingleOwner ==
    /\ \A k \in 1..Len(access) : access[k].owner # "worker"
    /\ \A i \in 1..Len(posted) :
          posted[i].type = "frame" => bufs[posted[i].buffer].owner = "worker"
    /\ \A b \in 1..Len(bufs) :
          bufs[b].owner = "worker" =>
            Cardinality({i \in 1..Len(posted) :
                            posted[i].type = "frame" /\ posted[i].buffer = b}) = 1

C9_Witness ==
    /\ \E k \in 1..Len(delivered) : delivered[k].st = "pinned"
    /\ \E i \in 1..Len(handled) :
          /\ IsFrame(i)
          /\ \E k \in 1..Len(delivered) :
                delivered[k].st = "attached" /\ delivered[k].buffer = handled[i].buffer
    /\ \E k \in 1..Len(access) : access[k].op = "slice"

\* C10 (as claimed): at most one frame message is in flight.
C10_AtMostOneInFlight == FrameCount(inbox) <= 1

\* C10 (amended): the frame messages in flight are exactly the socket messages
\* delivered and not yet handled by the worker, one per message, however many.
C10_InFlightIsBacklog ==
    /\ worker = "alive" => FrameCount(inbox) = Len(delivered) - FrameCount(handled)
    /\ worker # "alive" => inbox = <<>>

C10_Witness == worker = "alive" /\ FrameCount(inbox) = 3

\* --------------------------------------------------------------- teardown

\* The cleanup of the run that posted init has been executed: that run is no
\* longer the current one.
CleanedUp == posted # <<>> /\ effect \in {"bailed", "none"}

\* No step after the cleanup handles a message, uploads, draws, touches the
\* worker's GPU handles or delivers a socket message.
C11_QuietStep ==
    CleanedUp => UNCHANGED <<handled, uploads, draws, delivered, sent, workerVars>>

\* After the cleanup the worker is terminated with nothing queued for it and
\* the socket is past its open state.
C11_Released ==
    CleanedUp => /\ worker = "terminated"
                 /\ inbox = <<>>
                 /\ ws \notin {"connecting", "open"}

\* C11: once the cleanup has run (socket closed, worker terminated) the worker
\* handles no further frame and issues no draw, neither for the frames that
\* were queued at that moment nor for socket messages arriving afterwards, and
\* no GPU handle is used any more.
C11_NothingAfterCleanup == [][C11_QuietStep]_vars /\ []C11_Released

\* The cleanup ran while posted frames were still waiting for the worker, after
\* the worker had already drawn.
C11_Witness ==
    /\ CleanedUp
    /\ draws # <<>>
    /\ FrameCount(posted) > FrameCount(handled)

\* C12: once the component has been torn down no worker it created is still
\* alive, whichever path the effect took.
C12_NoWorkerLeft == comp = "unmounted" => (leaked = 0 /\ worker # "alive")

\* ----------------------------------------------------------------- status

\* The values the code gives to status (lines 14, 27, 34, 53, 68, 72).
StatusValues == {"idle", "connected", "ws-error", "closed", "no-worker", "no-offscreen"}

\* C13 as stated: status becomes connected only from connecting.
C13_ConnectingBeforeConnected ==
    [][status' = "connected" => status \in {"connecting", "connected"}]_vars

\* One step of status: it becomes connected only by the open event of a
\* connecting socket, from idle or from the no-worker of an earlier run; a
\* socket is created only where there was none; closed only turns into
\* no-worker.
C13_StatusStep ==
    /\ status' \in StatusValues
    /\ (status' = "connected" /\ status # "connected")
          => (status \in {"idle", "no-worker"} /\ ws = "connecting" /\ ws' = "open")
    /\ (ws' = "connecting" /\ ws # "connecting") => ws = "none"
    /\ status = "closed" => status' \in {"closed", "no-worker"}

\* C13: status only takes the values idle, connected, closed and the error
\* values ws-error, no-worker, no-offscreen; it never is connecting; it becomes
\* connected directly from idle (or no-worker) when the socket opens, and once
\* closed it never becomes connected again.
C13_StatusTransitions ==
    /\ [][C13_StatusStep]_vars
    /\ [](status \in StatusValues)
    /\ [](status = "closed" => [](status # "connected"))

\* Status went connected and then closed while the component stayed mounted.
C13_Witness ==
    /\ status = "closed"
    /\ comp = "mounted"
    /\ delivered # <<>>

\* C14: when the worker has reported that the GPU context or the shader
\* program could not be created, or offscreen transfer is unsupported, the
\* displayed status is a failure indicator.
C14_FailureShown ==
    (comp = "mounted" /\ (logged # <<>> \/ (runs > 0 /\ ~offscreenSupported)))
        => status \in {"no-offscreen", "no-worker", "ws-error"}

\* -------------------------------------------------------------- single init

Inits(q) == SelectSeq(q, LAMBDA m : m.type = "init")

\* Once created, the context and the texture stay what they are.
C15_CreatedOnceStep ==
    /\ gl # NULL => gl' = gl
    /\ texture.ctx # NULL
          => (texture'.ctx = texture.ctx /\ texture'.w = texture.w /\ texture'.h = texture.h)

\* C15: the worker is posted and handles at most one init message, so its
\* context and texture are created at most once and the texture keeps its
\* dimensions, across mounts, unmounts and re-runs.
C15_AtMostOneInit ==
    /\ [][C15_CreatedOnceStep]_vars
    /\ [](Len(Inits(posted)) <= 1 /\ Len(Inits(handled)) <= 1)

\* The effect ran twice and the worker of the run that posted init has
\* allocated its texture and handled a frame.
C15_Witness ==
    /\ runs = MaxRuns
    /\ texture.ctx # NULL
    /\ FrameCount(handled) > 0

\* ------------------------------------------------------------ image frames

\* A binary message whose payload is not width * height * 4 bytes long for
\* the width and height of its header, or that has no complete header.
Invalid(data) ==
    \/ Len(data) < HeaderBytes
    \/ Len(data) - HeaderBytes
         # getUint32(data, 0, TRUE) * getUint32(data, 4, TRUE) * BytesPerPixel

\* C16: a message that is shorter than the header or whose payload length
\* differs from width * height * 4 leaves the current image unchanged; the
\* displayed image always has a payload of exactly width * height * 4 bytes.
C16_InvalidDiscarded ==
    /\ \A i \in 1..Len(received) :
         (received[i].type = "Binary" /\ Invalid(received[i].data))
            => received[i].after = received[i].before
    /\ textureImage # NoImage
         => Len(textureImage.data)
              = textureImage.width * textureImage.height * BytesPerPixel

\* ------------------------------------------------------------- progress bar

\* The bar is dragging when the i-th pointer event happens: a pointer-down
\* came before it with no pointer-up in between.
DraggingAt(i) ==
    \E j \in 1..(i - 1) :
        /\ pointer[j].type = "down"
        /\ \A k \in (j + 1)..(i - 1) : pointer[k].type # "up"

\* clamp((P - L) / W, 0, 1) for the pointer position of an event.
FractionOf(clientX) ==
    LET n == clientX - BarRect.left
    IN IF n <= 0 THEN <<0, 1>>
       ELSE IF n >= BarRect.width THEN <<1, 1>>
       ELSE Frac(n, BarRect.width)

\* C19: every pointer-down and every pointer-move while dragging invokes the
\* seek callback exactly once with the fraction of that event; a pointer-move
\* while idle and a pointer-up invoke it zero times.
C19_SeekCalls ==
    \A i \in 1..Len(pointer) :
        LET e == pointer[i]
        IN IF e.type = "down" \/ (e.type = "move" /\ DraggingAt(i))
           THEN e.calls = <<FractionOf(e.clientX)>>
           ELSE e.calls = <<>>

\* A drag of three events: down, move while dragging (one call each), up.
C19_Witness ==
    /\ Len(pointer) = 3
    /\ pointer[1].type = "down" /\ Len(pointer[1].calls) = 1
    /\ pointer[2].type = "move" /\ Len(pointer[2].calls) = 1
    /\ pointer[2].clientX # pointer[1].clientX
    /\ pointer[3].type = "up"

\* A fraction as a percentage.
Percent(f) == <<f[1] * 100, f[2]>>

\* C20: while the bar is dragging the rendered fill is the drag position of
\* the latest pointer event, whatever props.progress is; after pointer-up the
\* drag position is discarded and the fill is props.progress.
C20_FillFollowsDragThenProgress ==
    LET n == Len(pointer)
    IN IF DraggingAt(n + 1)
       THEN /\ isDragging
            /\ Fill = Percent(FractionOf(pointer[n].clientX))
       ELSE /\ ~isDragging
            /\ dragPos = <<0, 1>>
            /\ Fill = Percent(progress)

\* A finished drag (down, move, up), with the progress value changed by the
\* parent in the meantime: the fill shows that value.
C20_Witness ==
    /\ Len(pointer) = 3
    /\ pointer[1].type = "down"
    /\ pointer[2].type = "move"
    /\ pointer[2].calls \notin {<<>>, << <<0, 1>> >>, pointer[1].calls}
    /\ pointer[3].type = "up"
    /\ progress # <<0, 1>>
    /\ Fill = Percent(progress)

\* ------------------------------------------------------------ non-blocking

\* The handler of a socket message does none of the worker's work.
C17_PostOnlyStep ==
    delivered' # delivered => UNCHANGED <<handled, uploads, draws, workerVars>>

\* Between control-thread tasks every socket event and the teardown can be
\* handled, whatever the worker is doing.
C17_Handleable ==
    MainIdle =>
        /\ (ws = "open" /\ Len(delivered) < MaxFrames) => ENABLED WsMessage
        /\ ws \in {"connecting", "open"} => ENABLED WsError
        /\ ws \in {"open", "closing", "failed"} => ENABLED WsClose
        /\ comp = "mounted" => ENABLED Unmount

\* C17: the socket message handler finishes after posting, without the worker
\* having uploaded or drawn, and socket events and the teardown stay
\* handleable in every state of the worker, frames queued or not.
C17_ControlNeverWaits == [][C17_PostOnlyStep]_vars /\ []C17_Handleable

\* The socket is open for more messages while two frames wait in the worker's
\* queue behind the unhandled init.
C17_Witness ==
    /\ ws = "open" /\ Len(delivered) < MaxFrames
    /\ worker = "alive" /\ FrameCount(inbox) >= 2
    /\ handled = <<>>

\* ------------------------------------------------------------------ backlog

\* The k-th socket message has videoWidth*videoHeight*4 bytes and arrived while
\* the worker was alive and initialised.
ArrivedUpSized(k) ==
    /\ k <= Len(delivered)
    /\ arrivedUp[k]
    /\ delivered[k].len = ExpectedLen
\* A draw showed the k-th socket message in every texel.
Drawn(k) ==
    /\ k <= Len(delivered)
    /\ \E i \in 1..Len(draws) :
          draws[i].shown = Image(posted[1].videoWidth, posted[1].videoHeight,
                                 bufs[delivered[k].buffer].content)
\* The k-th socket message waits in the worker's queue.
Queued(k) ==
    \E i \in 1..Len(inbox) :
        inbox[i].type = "frame" /\ inbox[i].buffer = delivered[k].buffer

\* C18 as stated: a frame that arrived while the pipeline was up is drawn or
\* still queued for drawing; it is never lost.
C18_NoFrameLost ==
    \A k \in 1..Len(delivered) : ArrivedUpSized(k) => (Drawn(k) \/ Queued(k))

\* C18: a correctly sized frame that arrives while the pipeline is up is
\* eventually uploaded and drawn unless the cleanup terminates the worker
\* first; while the worker lives the frame is drawn or queued, never lost.
C18_DrawnUnlessTornDown ==
    /\ [](\A k \in 1..Len(delivered) :
            (ArrivedUpSized(k) /\ worker = "alive") => (Drawn(k) \/ Queued(k)))
    /\ \A k \in 1..MaxFrames :
            ArrivedUpSized(k) ~> (Drawn(k) \/ worker # "alive")

\* Three correctly sized frames arrived while the pipeline was up and all
\* three have been drawn.
C18_Witness ==
    /\ Len(delivered) = 3
    /\ \A k \in 1..3 : ArrivedUpSized(k) /\ Drawn(k)
    /\ worker = "alive"

\* -------------------------------------------------------------------- clamp

\* C21: the fraction passed to the seek callback is clamp((P-L)/W, 0, 1): in
\* [0, 1], 0 for P <= L, 1 for P >= L+W, and (P-L)/W in between.
C21_ClampedFraction ==
    seek # NoSeek =>
        LET L == seek.left
            W == seek.width
            P == seek.clientX
            num == seek.fraction[1]
            den == seek.fraction[2]
        IN /\ den > 0 /\ 0 <= num /\ num <= den
           /\ P <= L => seek.fraction = <<0, 1>>
           /\ P >= L + W => seek.fraction = <<1, 1>>
           /\ (L < P /\ P < L + W) => num * W = (P - L) * den

\* A call with the pointer strictly inside a bar that does not start at 0:
\* the fraction is neither 0 nor 1.
C21_Witness ==
    /\ seek # NoSeek
    /\ seek.left > 0
    /\ seek.left < seek.clientX /\ seek.clientX < seek.left + seek.width
    /\ seek.fraction \notin {<<0, 1>>, <<1, 1>>}

\* ------------------------------------------------------ worker dimensions

\* C23: whenever gl, program and texture are all non-null, the size frames
\* are validated against is the byte size of the allocated texture and the
\* texture belongs to the current context.
C23_DimensionInvariant ==
    (gl # NULL /\ program # NULL /\ texture.ctx # NULL) =>
        /\ videoW * videoH * BytesPerPixel = texture.w * texture.h * BytesPerPixel
        /\ texture.ctx = gl

\* ------------------------------------------------------- status and socket

\* A socket is created only by a run before which this component had none:
\* no earlier run's socket exists whose events could arrive late.
C22_OneSocketStep == (ws' = "connecting" /\ ws # "connecting") => ws = "none"

\* C22: whenever the socket of the current run is open the displayed status is
\* "connected"; no close or error event of an earlier run's socket overwrites
\* the status of a connection made after a re-run.
C22_OpenMeansConnected ==
    /\ [](ws = "open" => (status = "connected" /\ comp = "mounted" /\ effect = "active"))
    /\ [][C22_OneSocketStep]_vars

\* The socket made by a re-run of the effect (the first run ended in
\* no-worker) is open and has delivered a message.
C22_Witness ==
    /\ runs = MaxRuns
    /\ ws = "open"
    /\ status = "connected"
    /\ delivered # <<>>

\* ------------------------------------------------------------- init first

\* C24: init is posted before the socket exists, the worker handles it before
\* any frame, and with a successful init every handled frame of
\* videoWidth*videoHeight*4 bytes is uploaded and drawn, also those that
\* arrived before the worker had run its initialisation.
C24_InitBeforeFrames ==
    /\ ws # "none" => (posted # <<>> /\ posted[1].type = "init")
    /\ handled # <<>> => handled[1].type = "init"
    /\ InitOk =>
          \A i \in 2..Len(handled) :
              handled[i].byteLength = ExpectedLen
                 => (UploadsAt(i) # {} /\ DrawsAt(i) # {})

\* A correctly sized frame arrived before the worker had handled init and has
\* been drawn after it.
C24_Witness ==
    /\ delivered # <<>>
    /\ ~arrivedUp[1]
    /\ delivered[1].len = ExpectedLen
    /\ InitOk
    /\ Drawn(1)

\* ----------------------------------------------------------- useVideoFrame

\* onFrame is never invoked by a callback of a run whose cleanup has run.
NoCallAfterCleanup ==
    \A i \in 1..Len(fired) : fired[i].invoked => ~fired[i].cleaned

\* C25 as stated: at most one frame callback is registered at any time, and
\* onFrame is never invoked after the cleanup.
C25_AtMostOneRegistered ==
    /\ Cardinality(frameRequests) <= 1
    /\ NoCallAfterCleanup

\* C25: at most one registered frame callback belongs to a run that is still
\* running, and where cancelVideoFrameCallback exists at most one is registered
\* at all; a callback of a cleaned-up run that still fires returns without
\* invoking onFrame and without requesting another callback.
C25_AtMostOneLive ==
    /\ Cardinality({c \in frameRequests : c.run \in running}) <= 1
    /\ cancelSupported => Cardinality(frameRequests) <= 1
    /\ NoCallAfterCleanup
    /\ \A i \in 1..Len(fired) : fired[i].cleaned => ~fired[i].invoked
    /\ Cardinality(running) <= 1

\* A callback requested by a cleaned-up run fired after the cleanup without
\* invoking onFrame, and a callback of a running run invoked it.
C25_Witness ==
    /\ \E i \in 1..Len(fired) : fired[i].cleaned /\ ~fired[i].invoked
    /\ \E i \in 1..Len(fired) : fired[i].invoked
    /\ vfRuns >= 2

====
